---- MODULE Spec2Model ----
(***************************************************************************)
(* Accumulator patterns: the six accumulator classes of accumulators.py   *)
(* as one object under test (Spec), and the free functions of             *)
(* accumulator_practice.py / advanced_accumulator_exercises.py applied to *)
(* bounded inputs (SpecFn).                                               *)
(*                                                                         *)
(* Python values:  None is the empty tuple <<>>, an optional number v is   *)
(* <<v>>; a list object lives in heap and is named by a reference; a dict  *)
(* is a function whose DOMAIN is its key set; a float that is not an       *)
(* integer is a fraction in lowest terms.                                  *)
(***************************************************************************)
EXTENDS Integers, Sequences, FiniteSets, TLC

VARIABLES cls, self, heap, result1, ctor, fresh, hist, prev, last, args, ret

vars == <<cls, self, heap, result1, ctor, fresh, hist, prev, last, args, ret>>

\* ---------------------------------------------------------------- bounds
MaxVal == 2
MaxCalls == 3
MaxBulk == 2
MaxLen == 3
MaxRecords == 2
MaxGrades == 2
MaxText == 4
MaxFib == 8

Values == (0 - MaxVal)..MaxVal
Elems == {"x", "y"}
Keys == {"apple", "banana"}
Refs == 1..3
Funcs == {"add", "list", "max"}
Initials == {0, 1, MaxVal}

None == <<>>
Some(v) == <<v>>

\* Sequences over S of length at most n
RECURSIVE SeqsUpTo(_, _)
SeqsUpTo(S, n) ==
    IF n = 0 THEN {<<>>}
    ELSE LET shorter == SeqsUpTo(S, n - 1)
         IN  shorter \cup {Append(s, x) : s \in {t \in shorter : Len(t) = n - 1}, x \in S}

RECURSIVE SumSeq(_)
SumSeq(s) == IF s = <<>> THEN 0 ELSE SumSeq(SubSeq(s, 1, Len(s) - 1)) + s[Len(s)]

RECURSIVE ProdSeq(_)
ProdSeq(s) == IF s = <<>> THEN 1 ELSE ProdSeq(SubSeq(s, 1, Len(s) - 1)) * s[Len(s)]

Range(s) == {s[i] : i \in 1..Len(s)}
SetMin(S) == CHOOSE m \in S : \A x \in S : m <= x
SetMax(S) == CHOOSE m \in S : \A x \in S : m >= x
Occurrences(s, x) == Cardinality({i \in 1..Len(s) : s[i] = x})

\* ------------------------------------------------------------ list heap
Live(s, r1) == {s.items} \cup Range(r1)
Alloc(live) == CHOOSE r \in Refs : r \notin live /\ \A q \in Refs : q \notin live => r <= q
Collect(h, live) == [r \in Refs |-> IF r \in live THEN h[r] ELSE <<>>]
EmptyHeap == [r \in Refs |-> <<>>]

\* ------------------------------------------------------- SumAccumulator
SumAccumulator_init(initial_value) == [total |-> initial_value]

\* Faulty variant: '=' in place of '+='
SumAccumulator_add_assign(s, value) == [s EXCEPT !.total = value]

SumAccumulator_add(s, value) == [s EXCEPT !.total = @ + value]

SumAccumulator_get_result(s) == s.total

\* Faulty variant: reset to the identity of the product
SumAccumulator_reset_one(s) == [s EXCEPT !.total = 1]

SumAccumulator_reset(s) == [s EXCEPT !.total = 0]

\* --------------------------------------------------- ProductAccumulator
ProductAccumulator_init(initial_value) == [product |-> initial_value]

ProductAccumulator_multiply(s, value) == [s EXCEPT !.product = @ * value]

ProductAccumulator_get_result(s) == s.product

ProductAccumulator_reset(s) == [s EXCEPT !.product = 1]

\* ------------------------------------------------------ ListAccumulator
\* self.items names a list object of the heap; init and reset bind it to a
\* new empty list, append and extend mutate the object in place.
\* Faulty variant: one list object shared by every instance (a mutable default)
ListAccumulator_init_shared(h, r) == [self |-> [items |-> 1], heap |-> [h EXCEPT ![1] = <<>>]]

ListAccumulator_init(h, r) == [self |-> [items |-> r], heap |-> [h EXCEPT ![r] = <<>>]]

ListAccumulator_append(h, s, value) == [h EXCEPT ![s.items] = Append(@, value)]

\* Faulty variant: the new elements are put in front
ListAccumulator_extend_front(h, s, values) == [h EXCEPT ![s.items] = values \o @]

ListAccumulator_extend(h, s, values) == [h EXCEPT ![s.items] = @ \o values]

\* Faulty variant: 'return self.items', the internal list itself
ListAccumulator_get_result_alias(h, s, r) == [ref |-> s.items, heap |-> h]

\* self.items.copy(): a new list object r holding the same elements
ListAccumulator_get_result(h, s, r) == [ref |-> r, heap |-> [h EXCEPT ![r] = h[s.items]]]

ListAccumulator_reset(h, s, r) == [self |-> [s EXCEPT !.items = r], heap |-> [h EXCEPT ![r] = <<>>]]

\* --------------------------------------------------- CounterAccumulator
\* defaultdict(int).__getitem__: a missing key is inserted with int() = 0
\* before its value is returned.
defaultdict_getitem(d, key) ==
    LET d2 == IF key \in DOMAIN d THEN d ELSE d @@ (key :> 0)
    IN  [value |-> d2[key], dict |-> d2]

CounterAccumulator_init == [counts |-> <<>>]

\* Faulty variant: '= 1' in place of '+= 1'
CounterAccumulator_count_set(s, item) ==
    LET got == defaultdict_getitem(s.counts, item)
    IN  [s EXCEPT !.counts = [got.dict EXCEPT ![item] = 1]]

\* self.counts[item] += 1 : __getitem__, then __setitem__
CounterAccumulator_count(s, item) ==
    LET got == defaultdict_getitem(s.counts, item)
    IN  [s EXCEPT !.counts = [got.dict EXCEPT ![item] = got.value + 1]]

RECURSIVE CounterAccumulator_count_many(_, _)
CounterAccumulator_count_many(s, items) ==
    IF items = <<>> THEN s
    ELSE CounterAccumulator_count_many(CounterAccumulator_count(s, Head(items)), Tail(items))

\* dict(self.counts): a plain dict with the same keys and values
CounterAccumulator_get_result(s) == s.counts

CounterAccumulator_get_count(s, item) ==
    LET got == defaultdict_getitem(s.counts, item)
    IN  [value |-> got.value, self |-> [s EXCEPT !.counts = got.dict]]

CounterAccumulator_reset(s) == [s EXCEPT !.counts = <<>>]

\* ---------------------------------------------------- MinMaxAccumulator
\* Faulty variant: the maximum starts from 0
MinMaxAccumulator_init_zero == [min_value |-> None, max_value |-> Some(0)]

MinMaxAccumulator_init == [min_value |-> None, max_value |-> None]

\* Faulty variant: 'elif' in place of the second 'if'
MinMaxAccumulator_add_elif(s, value) ==
    IF s.min_value = None \/ value < s.min_value[1]
    THEN [s EXCEPT !.min_value = Some(value)]
    ELSE IF s.max_value = None \/ value > s.max_value[1]
         THEN [s EXCEPT !.max_value = Some(value)] ELSE s

MinMaxAccumulator_add(s, value) ==
    LET s1 == IF s.min_value = None \/ value < s.min_value[1]
              THEN [s EXCEPT !.min_value = Some(value)] ELSE s
    IN  IF s1.max_value = None \/ value > s1.max_value[1]
        THEN [s1 EXCEPT !.max_value = Some(value)] ELSE s1

MinMaxAccumulator_get_min(s) == s.min_value

MinMaxAccumulator_get_max(s) == s.max_value

MinMaxAccumulator_get_result(s) == <<s.min_value, s.max_value>>

\* Faulty variant: reset forgets to clear max_value
MinMaxAccumulator_reset_min_only(s) == [s EXCEPT !.min_value = None]

MinMaxAccumulator_reset(s) == [s EXCEPT !.min_value = None, !.max_value = None]

\* ---------------------------------------------------- CustomAccumulator
\* The accumulate functions of the tests and the demo:
\*   "add"  lambda a, b: a + b        "list"  lambda a, b: a + [b]
\*   "max"  the builtin max
accumulate_func(f, a, b) ==
    CASE f = "add"  -> a + b
      [] f = "list" -> a \o <<b>>
      [] f = "max"  -> IF b > a THEN b ELSE a

InitialValues(f) == IF f = "list" THEN {<<>>, <<0>>} ELSE Initials

CustomAccumulator_init(initial_value, f) ==
    [value |-> initial_value, initial_value |-> initial_value, accumulate_func |-> f]

\* Faulty variant: combines with the initial value instead of the current one
CustomAccumulator_add_initial(s, new_value) ==
    [s EXCEPT !.value = accumulate_func(s.accumulate_func, s.initial_value, new_value)]

CustomAccumulator_add(s, new_value) ==
    [s EXCEPT !.value = accumulate_func(s.accumulate_func, s.value, new_value)]

CustomAccumulator_get_result(s) == s.value

CustomAccumulator_reset(s) == [s EXCEPT !.value = s.initial_value]

\* ---------------------------------------------------- utility functions
RECURSIVE accumulate_min_max_loop(_, _)
accumulate_min_max_loop(acc, values) ==
    IF values = <<>> THEN acc
    ELSE accumulate_min_max_loop(MinMaxAccumulator_add(acc, Head(values)), Tail(values))

accumulate_min_max(values) ==
    MinMaxAccumulator_get_result(accumulate_min_max_loop(MinMaxAccumulator_init, values))

accumulate_counts(items) ==
    CounterAccumulator_get_result(
        CounterAccumulator_count_many(CounterAccumulator_init, items))

RECURSIVE accumulate_sum_loop(_, _)
accumulate_sum_loop(acc, rest) ==
    IF rest = <<>> THEN acc
    ELSE accumulate_sum_loop(SumAccumulator_add(acc, Head(rest)), Tail(rest))

accumulate_sum(values) ==
    SumAccumulator_get_result(accumulate_sum_loop(SumAccumulator_init(0), values))

RECURSIVE accumulate_product_loop(_, _)
accumulate_product_loop(acc, rest) ==
    IF rest = <<>> THEN acc
    ELSE accumulate_product_loop(ProductAccumulator_multiply(acc, Head(rest)), Tail(rest))

accumulate_product(values) ==
    ProductAccumulator_get_result(accumulate_product_loop(ProductAccumulator_init(1), values))

\* =========================================================== free functions
\* A call either returns a value or raises an exception
Return(v) == [raises |-> "", value |-> v]
Raise(e) == [raises |-> e, value |-> None]

\* ------------------------------------------------------------------ floats
\* A float is the fraction num/den in lowest terms, den > 0
RECURSIVE GCD(_, _)
GCD(a, b) == IF b = 0 THEN a ELSE GCD(b, a % b)

Abs(x) == IF x < 0 THEN 0 - x ELSE x

Fraction(n, d) ==
    LET g == GCD(Abs(n), d)
    IN  [num |-> n \div g, den |-> d \div g]

Less(a, b) == a.num * b.den < b.num * a.den

\* a / b
TrueDiv(a, b) == IF b = 0 THEN Raise("ZeroDivisionError") ELSE Return(Fraction(a, b))

Pow10(ndigits) == IF ndigits = 1 THEN 10 ELSE 100

\* round(x, ndigits): to the nearest multiple of 10^-ndigits, ties to even
round(x, ndigits) ==
    LET scale == Pow10(ndigits)
        q     == (x.num * scale) \div x.den
        rest  == 2 * ((x.num * scale) - q * x.den)
        n     == IF rest > x.den \/ (rest = x.den /\ q % 2 = 1) THEN q + 1 ELSE q
    IN  Fraction(n, scale)

\* ------------------------------------------------- accumulator_practice.py
RECURSIVE max_accumulator_loop(_, _)
max_accumulator_loop(max_val, rest) ==
    IF rest = <<>> THEN max_val
    ELSE max_accumulator_loop(IF Head(rest) > max_val THEN Head(rest) ELSE max_val, Tail(rest))

\* Faulty variant: a default in place of the error
max_accumulator_default(numbers) ==
    IF numbers = <<>> THEN Return(0)
    ELSE Return(max_accumulator_loop(numbers[1], Tail(numbers)))

max_accumulator(numbers) ==
    IF numbers = <<>> THEN Raise("ValueError")
    ELSE Return(max_accumulator_loop(numbers[1], Tail(numbers)))

RECURSIVE min_accumulator_loop(_, _)
min_accumulator_loop(min_val, rest) ==
    IF rest = <<>> THEN min_val
    ELSE min_accumulator_loop(IF Head(rest) < min_val THEN Head(rest) ELSE min_val, Tail(rest))

min_accumulator(numbers) ==
    IF numbers = <<>> THEN Raise("ValueError")
    ELSE Return(min_accumulator_loop(numbers[1], Tail(numbers)))

RECURSIVE average_accumulator_loop(_, _)
average_accumulator_loop(acc, rest) ==
    IF rest = <<>> THEN acc
    ELSE average_accumulator_loop([total |-> acc.total + Head(rest), count |-> acc.count + 1],
                                  Tail(rest))

average_accumulator(numbers) ==
    IF numbers = <<>> THEN Return(Fraction(0, 1))
    ELSE LET acc == average_accumulator_loop([total |-> 0, count |-> 0], numbers)
         IN  TrueDiv(acc.total, acc.count)

\* --------------------------------------- advanced_accumulator_exercises.py
RECURSIVE sales_analysis_loop(_, _)
sales_analysis_loop(acc, rest) ==
    IF rest = <<>> THEN acc
    ELSE LET sale == Head(rest)
             revenue == sale.price * sale.quantity
         IN  sales_analysis_loop(
                 [total_revenue   |-> acc.total_revenue + revenue,
                  total_items     |-> acc.total_items + sale.quantity,
                  total_price_sum |-> acc.total_price_sum + sale.price],
                 Tail(rest))

\* round(total_revenue, 2) of an int is that int
sales_analysis_accumulator(sales_data) ==
    LET acc == sales_analysis_loop(
                   [total_revenue |-> 0, total_items |-> 0, total_price_sum |-> 0], sales_data)
        avg_price == IF sales_data # <<>> THEN TrueDiv(acc.total_price_sum, Len(sales_data))
                     ELSE Return(Fraction(0, 1))
    IN  IF avg_price.raises # "" THEN avg_price
        ELSE Return([total_revenue |-> acc.total_revenue,
                     total_items   |-> acc.total_items,
                     avg_price     |-> round(avg_price.value, 2)])

RECURSIVE student_total_loop(_, _)
student_total_loop(student_total, grades) ==
    IF grades = <<>> THEN student_total
    ELSE student_total_loop(student_total + Head(grades), Tail(grades))

\* Faulty variant: the division without its guard
student_avg_unguarded(student) ==
    TrueDiv(student_total_loop(0, student.grades), Len(student.grades))

\* Line 81: the student's average, 0 for an empty grade list
student_avg(student) ==
    IF student.grades # <<>>
    THEN TrueDiv(student_total_loop(0, student.grades), Len(student.grades))
    ELSE Return(Fraction(0, 1))

RECURSIVE student_grades_loop(_, _)
student_grades_loop(acc, rest) ==
    IF rest = <<>> \/ acc.raises # "" THEN acc
    ELSE LET student == Head(rest)
             avg == student_avg(student)
             counted == [acc EXCEPT
                            !.total_class_points = @ + student_total_loop(0, student.grades),
                            !.total_class_grades = @ + Len(student.grades)]
         IN  IF avg.raises # "" THEN [counted EXCEPT !.raises = avg.raises]
             ELSE LET best == IF Less(counted.best_avg, avg.value)
                              THEN [counted EXCEPT !.best_avg = avg.value,
                                                   !.best_student = Some(student.name)]
                              ELSE counted
                      worst == IF Less(avg.value, best.worst_avg)
                               THEN [best EXCEPT !.worst_avg = avg.value,
                                                 !.worst_student = Some(student.name)]
                               ELSE best
                  IN  student_grades_loop(worst, Tail(rest))

student_grades_accumulator(student_records) ==
    IF student_records = <<>>
    THEN Return([best_student |-> None, worst_student |-> None,
                 class_average |-> Fraction(0, 1)])
    ELSE LET acc == student_grades_loop(
                        [best_student |-> None, worst_student |-> None,
                         best_avg |-> Fraction(0 - 1, 1), worst_avg |-> Fraction(101, 1),
                         total_class_points |-> 0, total_class_grades |-> 0, raises |-> ""],
                        student_records)
             class_average == IF acc.total_class_grades # 0
                              THEN TrueDiv(acc.total_class_points, acc.total_class_grades)
                              ELSE Return(Fraction(0, 1))
         IN  IF acc.raises # "" THEN Raise(acc.raises)
             ELSE IF class_average.raises # "" THEN class_average
             ELSE Return([best_student  |-> acc.best_student,
                          worst_student |-> acc.worst_student,
                          class_average |-> round(class_average.value, 1)])

RECURSIVE weather_data_loop(_, _)
weather_data_loop(acc, rest) ==
    IF rest = <<>> THEN acc
    ELSE LET temp == Head(rest).temperature
             humidity == Head(rest).humidity
         IN  weather_data_loop(
                 [temp_sum     |-> acc.temp_sum + temp,
                  humidity_sum |-> acc.humidity_sum + humidity,
                  max_temp     |-> IF temp > acc.max_temp THEN temp ELSE acc.max_temp,
                  min_temp     |-> IF temp < acc.min_temp THEN temp ELSE acc.min_temp],
                 Tail(rest))

\* Faulty variant: an error in place of the defaults
weather_data_accumulator_raise(weather_records) ==
    IF weather_records = <<>> THEN Raise("ValueError")
    ELSE LET acc == weather_data_loop(
                        [temp_sum |-> 0, humidity_sum |-> 0,
                         max_temp |-> weather_records[1].temperature,
                         min_temp |-> weather_records[1].temperature],
                        weather_records)
             count == Len(weather_records)
         IN  Return([avg_temp     |-> round(Fraction(acc.temp_sum, count), 1),
                     max_temp     |-> acc.max_temp,
                     min_temp     |-> acc.min_temp,
                     avg_humidity |-> round(Fraction(acc.humidity_sum, count), 1)])

weather_data_accumulator(weather_records) ==
    IF weather_records = <<>>
    THEN Return([avg_temp |-> Fraction(0, 1), max_temp |-> 0, min_temp |-> 0,
                 avg_humidity |-> Fraction(0, 1)])
    ELSE LET acc == weather_data_loop(
                        [temp_sum |-> 0, humidity_sum |-> 0,
                         max_temp |-> weather_records[1].temperature,
                         min_temp |-> weather_records[1].temperature],
                        weather_records)
             count == Len(weather_records)
             avg_temp == TrueDiv(acc.temp_sum, count)
             avg_humidity == TrueDiv(acc.humidity_sum, count)
         IN  IF avg_temp.raises # "" THEN avg_temp
             ELSE IF avg_humidity.raises # "" THEN avg_humidity
             ELSE Return([avg_temp     |-> round(avg_temp.value, 1),
                          max_temp     |-> acc.max_temp,
                          min_temp     |-> acc.min_temp,
                          avg_humidity |-> round(avg_humidity.value, 1)])

\* inventory is a dict from item to stock level
RECURSIVE inventory_management_loop(_, _)
inventory_management_loop(inventory, rest) ==
    IF rest = <<>> THEN inventory
    ELSE LET transaction == Head(rest)
             item == transaction.item
             quantity == transaction.quantity
             known == IF item \in DOMAIN inventory THEN inventory
                      ELSE inventory @@ (item :> 0)
             updated ==
                 IF transaction.type = "in"
                 THEN [known EXCEPT ![item] = @ + quantity]
                 ELSE IF transaction.type = "out"
                      THEN [known EXCEPT ![item] = IF @ - quantity < 0 THEN 0 ELSE @ - quantity]
                      ELSE known
         IN  inventory_management_loop(updated, Tail(rest))

inventory_management_accumulator(transactions) ==
    Return(inventory_management_loop(<<>>, transactions))

\* str.isalpha() on the characters of the modelled texts
Letters == {"a", "H", "e", "l", "o", "w", "r", "d"}
isalpha(char) == char \in Letters

RECURSIVE text_analysis_loop(_, _)
text_analysis_loop(acc, rest) ==
    IF rest = <<>> THEN acc
    ELSE LET char == Head(rest)
             counted == [acc EXCEPT !.char_count = @ + 1]
             step ==
                 IF isalpha(char)
                 THEN [counted EXCEPT !.current_word = Append(@, char)]
                 ELSE LET ended == IF counted.current_word # <<>>
                                   THEN [counted EXCEPT
                                            !.word_count = @ + 1,
                                            !.total_word_length = @ + Len(counted.current_word),
                                            !.current_word = <<>>]
                                   ELSE counted
                      IN  IF char \in {".", "!", "?"}
                          THEN [ended EXCEPT !.sentence_count = @ + 1]
                          ELSE ended
         IN  text_analysis_loop(step, Tail(rest))

text_analysis_report(acc) ==
    LET avg_word_length == IF acc.word_count > 0
                           THEN TrueDiv(acc.total_word_length, acc.word_count)
                           ELSE Return(Fraction(0, 1))
    IN  IF avg_word_length.raises # "" THEN avg_word_length
        ELSE Return([word_count      |-> acc.word_count,
                     char_count      |-> acc.char_count,
                     sentence_count  |-> acc.sentence_count,
                     avg_word_length |-> round(avg_word_length.value, 1)])

\* Faulty variant: the word still open at the end of the text is dropped
text_analysis_accumulator_no_trailing(text) ==
    text_analysis_report(
        text_analysis_loop([word_count |-> 0, char_count |-> 0, sentence_count |-> 0,
                            total_word_length |-> 0, current_word |-> <<>>], text))

text_analysis_accumulator(text) ==
    LET acc == text_analysis_loop([word_count |-> 0, char_count |-> 0, sentence_count |-> 0,
                                   total_word_length |-> 0, current_word |-> <<>>], text)
        last_word == IF acc.current_word # <<>>
                     THEN [acc EXCEPT !.word_count = @ + 1,
                                      !.total_word_length = @ + Len(acc.current_word)]
                     ELSE acc
    IN  text_analysis_report(last_word)

\* ----------------------------------- accumulator_practice.py, further functions
RECURSIVE running_sum_loop(_, _)
running_sum_loop(acc, rest) ==
    IF rest = <<>> THEN acc
    ELSE LET current_sum == acc.current_sum + Head(rest)
         IN  running_sum_loop([current_sum  |-> current_sum,
                               running_sums |-> Append(acc.running_sums, current_sum)],
                              Tail(rest))

\* Faulty variant: the running total is stored before it is updated
RECURSIVE running_sum_loop_stale(_, _)
running_sum_loop_stale(acc, rest) ==
    IF rest = <<>> THEN acc
    ELSE running_sum_loop_stale([current_sum  |-> acc.current_sum + Head(rest),
                                 running_sums |-> Append(acc.running_sums, acc.current_sum)],
                                Tail(rest))

running_sum_accumulator_stale(numbers) ==
    Return(running_sum_loop_stale([current_sum |-> 0, running_sums |-> <<>>], numbers).running_sums)

running_sum_accumulator(numbers) ==
    Return(running_sum_loop([current_sum |-> 0, running_sums |-> <<>>], numbers).running_sums)

\* frequency is a plain dict: membership is tested before the update
RECURSIVE frequency_counter_loop(_, _)
frequency_counter_loop(frequency, rest) ==
    IF rest = <<>> THEN frequency
    ELSE LET item == Head(rest)
         IN  frequency_counter_loop(
                 IF item \in DOMAIN frequency
                 THEN [frequency EXCEPT ![item] = @ + 1]
                 ELSE frequency @@ (item :> 1),
                 Tail(rest))

\* Faulty variant: a new item starts at 0
RECURSIVE frequency_counter_loop_zero(_, _)
frequency_counter_loop_zero(frequency, rest) ==
    IF rest = <<>> THEN frequency
    ELSE LET item == Head(rest)
         IN  frequency_counter_loop_zero(
                 IF item \in DOMAIN frequency
                 THEN [frequency EXCEPT ![item] = @ + 1]
                 ELSE frequency @@ (item :> 0),
                 Tail(rest))

frequency_counter_accumulator_zero(items) == Return(frequency_counter_loop_zero(<<>>, items))

frequency_counter_accumulator(items) == Return(frequency_counter_loop(<<>>, items))

\* ------------------------------------------------- fibonacci_accumulator
\* for i in range(2, n); fib_sequence[i-1] and fib_sequence[i-2] of the
\* 0-based list are elements i and i-1 of the sequence
RECURSIVE fibonacci_loop(_, _, _)
fibonacci_loop(fib_sequence, i, stop) ==
    IF i >= stop THEN fib_sequence
    ELSE LET next_fib == fib_sequence[i] + fib_sequence[i - 1]
         IN  fibonacci_loop(Append(fib_sequence, next_fib), i + 1, stop)

\* Faulty variant: the loop stops one step early
fibonacci_accumulator_short(n) ==
    IF n <= 0 THEN Return(<<>>)
    ELSE IF n = 1 THEN Return(<<0>>)
    ELSE IF n = 2 THEN Return(<<0, 1>>)
    ELSE Return(fibonacci_loop(<<0, 1>>, 2, n - 1))

fibonacci_accumulator(n) ==
    IF n <= 0 THEN Return(<<>>)
    ELSE IF n = 1 THEN Return(<<0>>)
    ELSE IF n = 2 THEN Return(<<0, 1>>)
    ELSE Return(fibonacci_loop(<<0, 1>>, 2, n))

\* ------------------------------------------------ exercise_2_longest_word
\* for word in words[1:]; len(word) is the number of characters
RECURSIVE longest_word_loop(_, _)
longest_word_loop(longest, rest) ==
    IF rest = <<>> THEN longest
    ELSE longest_word_loop(IF Len(Head(rest)) > Len(longest) THEN Head(rest) ELSE longest,
                           Tail(rest))

\* Faulty variant: a later word of the same length replaces the earlier one
RECURSIVE longest_word_loop_last(_, _)
longest_word_loop_last(longest, rest) ==
    IF rest = <<>> THEN longest
    ELSE longest_word_loop_last(IF Len(Head(rest)) >= Len(longest) THEN Head(rest)
                                ELSE longest,
                                Tail(rest))

exercise_2_longest_word_last(words) ==
    IF words = <<>> THEN Return("")
    ELSE Return(longest_word_loop_last(words[1], Tail(words)))

exercise_2_longest_word(words) ==
    IF words = <<>> THEN Return("")
    ELSE Return(longest_word_loop(words[1], Tail(words)))

\* --------------------------------- basic_sum_accumulator, product_accumulator
RECURSIVE basic_sum_loop(_, _)
basic_sum_loop(total, rest) ==
    IF rest = <<>> THEN total ELSE basic_sum_loop(total + Head(rest), Tail(rest))

basic_sum_accumulator(numbers) == Return(basic_sum_loop(0, numbers))

RECURSIVE product_loop(_, _)
product_loop(product, rest) ==
    IF rest = <<>> THEN product ELSE product_loop(product * Head(rest), Tail(rest))

\* Faulty variant: the product starts from the identity of the sum
product_accumulator_zero(numbers) == Return(product_loop(0, numbers))

product_accumulator(numbers) == Return(product_loop(1, numbers))

\* ============================================================== examples.py
\* ------------------------------------------------------ process_sales_data
\* The accumulators of the function: region_totals maps a region to its own
\* SumAccumulator; big_sales_acc holds list object 1 of the local heap.
RECURSIVE process_sales_loop(_, _)
process_sales_loop(acc, rest) ==
    IF rest = <<>> THEN acc
    ELSE LET record == Head(rest)
             amount == record.amount
             product == record.product
             region == record.region
             region_totals == IF region \notin DOMAIN acc.region_totals
                              THEN acc.region_totals @@ (region :> SumAccumulator_init(0))
                              ELSE acc.region_totals
         IN  process_sales_loop(
                 [revenue_acc      |-> SumAccumulator_add(acc.revenue_acc, amount),
                  product_acc      |-> CounterAccumulator_count(acc.product_acc, product),
                  amount_range_acc |-> MinMaxAccumulator_add(acc.amount_range_acc, amount),
                  region_totals    |-> [region_totals EXCEPT
                                           ![region] = SumAccumulator_add(@, amount)],
                  big_sales_acc    |-> acc.big_sales_acc,
                  heap             |-> IF amount >= 1000
                                       THEN ListAccumulator_append(acc.heap, acc.big_sales_acc,
                                                                   record)
                                       ELSE acc.heap],
                 Tail(rest))

process_sales_accumulators ==
    LET made == ListAccumulator_init(EmptyHeap, 1)
    IN  [revenue_acc      |-> SumAccumulator_init(0),
         product_acc      |-> CounterAccumulator_init,
         amount_range_acc |-> MinMaxAccumulator_init,
         region_totals    |-> <<>>,
         big_sales_acc    |-> made.self,
         heap             |-> made.heap]

\* Lines 121-138: the results read from the accumulators
process_sales_results(acc, sales_records) ==
    LET regional_results ==
            [region \in DOMAIN acc.region_totals |->
                SumAccumulator_get_result(acc.region_totals[region])]
        sale_range == MinMaxAccumulator_get_result(acc.amount_range_acc)
        big_sales == ListAccumulator_get_result(acc.heap, acc.big_sales_acc, 2)
        average_sale == TrueDiv(SumAccumulator_get_result(acc.revenue_acc), Len(sales_records))
    IN  IF average_sale.raises # "" THEN average_sale
        ELSE Return([total_revenue      |-> SumAccumulator_get_result(acc.revenue_acc),
                     total_transactions |-> Len(sales_records),
                     average_sale       |-> average_sale.value,
                     product_counts     |-> CounterAccumulator_get_result(acc.product_acc),
                     regional_totals    |-> regional_results,
                     big_sales_count    |-> Len(big_sales.heap[big_sales.ref]),
                     sale_range         |-> <<sale_range[1], sale_range[2]>>])

\* Faulty variant: the loop skips the first record
process_sales_data_skip_first(sales_records) ==
    IF sales_records = <<>> THEN Return([error |-> "No sales data provided"])
    ELSE process_sales_results(process_sales_loop(process_sales_accumulators,
                                                  Tail(sales_records)),
                               sales_records)

process_sales_data(sales_records) ==
    IF sales_records = <<>> THEN Return([error |-> "No sales data provided"])
    ELSE process_sales_results(process_sales_loop(process_sales_accumulators, sales_records),
                               sales_records)

\* ---------------------------------------------------------- analyze_grades
\* Faulty variant: strict comparisons at the letter boundaries
letter_grade_strict(grade) ==
    IF grade > 90 THEN "A"
    ELSE IF grade > 80 THEN "B"
    ELSE IF grade > 70 THEN "C"
    ELSE IF grade > 60 THEN "D"
    ELSE "F"

\* Lines 42-51: the if/elif chain that converts a grade to its letter
letter_grade(grade) ==
    IF grade >= 90 THEN "A"
    ELSE IF grade >= 80 THEN "B"
    ELSE IF grade >= 70 THEN "C"
    ELSE IF grade >= 60 THEN "D"
    ELSE "F"

RECURSIVE analyze_grades_loop(_, _)
analyze_grades_loop(acc, rest) ==
    IF rest = <<>> THEN acc
    ELSE LET grade == Head(rest)
             letter == letter_grade(grade)
         IN  analyze_grades_loop(
                 [sum_acc     |-> SumAccumulator_add(acc.sum_acc, grade),
                  minmax_acc  |-> MinMaxAccumulator_add(acc.minmax_acc, grade),
                  letter_acc  |-> CounterAccumulator_count(acc.letter_acc, letter),
                  passing_acc |-> acc.passing_acc,
                  heap        |-> IF grade >= 60
                                  THEN ListAccumulator_append(acc.heap, acc.passing_acc, grade)
                                  ELSE acc.heap],
                 Tail(rest))

analyze_grades_accumulators ==
    LET made == ListAccumulator_init(EmptyHeap, 1)
    IN  [sum_acc     |-> SumAccumulator_init(0),
         minmax_acc  |-> MinMaxAccumulator_init,
         letter_acc  |-> CounterAccumulator_init,
         passing_acc |-> made.self,
         heap        |-> made.heap]

analyze_grades(grades) ==
    IF grades = <<>> THEN Return([error |-> "No grades provided"])
    ELSE LET acc == analyze_grades_loop(analyze_grades_accumulators, grades)
             total == SumAccumulator_get_result(acc.sum_acc)
             range == MinMaxAccumulator_get_result(acc.minmax_acc)
             passing == ListAccumulator_get_result(acc.heap, acc.passing_acc, 2)
             passing_grades == passing.heap[passing.ref]
             average == TrueDiv(total, Len(grades))
             passing_rate == TrueDiv(Len(passing_grades), Len(grades))
         IN  IF average.raises # "" THEN average
             ELSE IF passing_rate.raises # "" THEN passing_rate
             ELSE Return([total_students |-> Len(grades),
                          total_points   |-> total,
                          average        |-> average.value,
                          min_grade      |-> range[1],
                          max_grade      |-> range[2],
                          letter_grades  |-> CounterAccumulator_get_result(acc.letter_acc),
                          passing_grades |-> passing_grades,
                          passing_rate   |-> Fraction(passing_rate.value.num * 100,
                                                      passing_rate.value.den)])

\* ------------------------------------------------------ initial states
InitCommon ==
    /\ result1 = None
    /\ fresh = TRUE
    /\ hist = <<>>
    /\ prev = ""
    /\ last = "__init__"
    /\ args = None
    /\ ret = None

InitSum ==
    /\ cls = "SumAccumulator"
    /\ \E initial_value \in Initials :
          /\ ctor = initial_value
          /\ self = SumAccumulator_init(initial_value)
    /\ heap = EmptyHeap

InitProduct ==
    /\ cls = "ProductAccumulator"
    /\ \E initial_value \in Initials :
          /\ ctor = initial_value
          /\ self = ProductAccumulator_init(initial_value)
    /\ heap = EmptyHeap

InitList ==
    /\ cls = "ListAccumulator"
    /\ ctor = None
    /\ LET made == ListAccumulator_init(EmptyHeap, Alloc({}))
       IN  self = made.self /\ heap = made.heap

InitCounter ==
    /\ cls = "CounterAccumulator"
    /\ ctor = None
    /\ self = CounterAccumulator_init
    /\ heap = EmptyHeap

InitMinMax ==
    /\ cls = "MinMaxAccumulator"
    /\ ctor = None
    /\ self = MinMaxAccumulator_init
    /\ heap = EmptyHeap

InitCustom ==
    /\ cls = "CustomAccumulator"
    /\ \E f \in Funcs : \E initial_value \in InitialValues(f) :
          /\ ctor = [initial_value |-> initial_value, accumulate_func |-> f]
          /\ self = CustomAccumulator_init(initial_value, f)
    /\ heap = EmptyHeap

Init ==
    /\ InitCommon
    /\ (InitSum \/ InitProduct \/ InitList \/ InitCounter \/ InitMinMax \/ InitCustom)

\* ------------------------------------------------------------- actions
\* One call on the object: prev and last are the two most recent calls,
\* args and ret the argument and the return value of the last one.
Called(name, a, value) ==
    /\ prev' = last
    /\ last' = name
    /\ args' = a
    /\ ret' = value
    /\ UNCHANGED <<cls, ctor>>

SumAdd ==
    /\ cls = "SumAccumulator"
    /\ Len(hist) < MaxCalls
    /\ \E value \in Values :
          /\ self' = SumAccumulator_add(self, value)
          /\ hist' = Append(hist, value)
          /\ Called("add", value, None)
    /\ UNCHANGED <<heap, result1, fresh>>

SumGetResult ==
    /\ cls = "SumAccumulator"
    /\ Called("get_result", None, SumAccumulator_get_result(self))
    /\ UNCHANGED <<self, heap, result1, fresh, hist>>

SumReset ==
    /\ cls = "SumAccumulator"
    /\ self' = SumAccumulator_reset(self)
    /\ hist' = <<>>
    /\ fresh' = FALSE
    /\ Called("reset", None, None)
    /\ UNCHANGED <<heap, result1>>

ProductMultiply ==
    /\ cls = "ProductAccumulator"
    /\ Len(hist) < MaxCalls
    /\ \E value \in Values :
          /\ self' = ProductAccumulator_multiply(self, value)
          /\ hist' = Append(hist, value)
          /\ Called("multiply", value, None)
    /\ UNCHANGED <<heap, result1, fresh>>

ProductGetResult ==
    /\ cls = "ProductAccumulator"
    /\ Called("get_result", None, ProductAccumulator_get_result(self))
    /\ UNCHANGED <<self, heap, result1, fresh, hist>>

ProductReset ==
    /\ cls = "ProductAccumulator"
    /\ self' = ProductAccumulator_reset(self)
    /\ hist' = <<>>
    /\ fresh' = FALSE
    /\ Called("reset", None, None)
    /\ UNCHANGED <<heap, result1>>

ListAppend ==
    /\ cls = "ListAccumulator"
    /\ Len(hist) < MaxCalls
    /\ \E value \in Elems :
          /\ heap' = ListAccumulator_append(heap, self, value)
          /\ hist' = Append(hist, value)
          /\ Called("append", value, None)
    /\ UNCHANGED <<self, result1, fresh>>

ListExtend ==
    /\ cls = "ListAccumulator"
    /\ \E values \in SeqsUpTo(Elems, MaxBulk) :
          /\ Len(hist) + Len(values) <= MaxCalls
          /\ heap' = ListAccumulator_extend(heap, self, values)
          /\ hist' = hist \o values
          /\ Called("extend", values, None)
    /\ UNCHANGED <<self, result1, fresh>>

\* result1 = acc.get_result(): the caller keeps the returned list
ListGetResult ==
    /\ cls = "ListAccumulator"
    /\ LET got == ListAccumulator_get_result(heap, self, Alloc(Live(self, result1)))
       IN  /\ result1' = Some(got.ref)
           /\ heap' = Collect(got.heap, Live(self, Some(got.ref)))
           /\ Called("get_result", None, Some(got.ref))
    /\ UNCHANGED <<self, fresh, hist>>

ListReset ==
    /\ cls = "ListAccumulator"
    /\ LET made == ListAccumulator_reset(heap, self, Alloc(Live(self, result1)))
       IN  /\ self' = made.self
           /\ heap' = Collect(made.heap, Live(made.self, result1))
    /\ hist' = <<>>
    /\ fresh' = FALSE
    /\ Called("reset", None, None)
    /\ UNCHANGED <<result1>>

\* The caller mutates the list it was handed: result1.append(value)
ResultAppend ==
    /\ cls = "ListAccumulator"
    /\ result1 # None
    /\ Len(heap[result1[1]]) <= MaxCalls
    /\ \E value \in Elems : heap' = [heap EXCEPT ![result1[1]] = Append(@, value)]
    /\ Called("result1.append", None, None)
    /\ UNCHANGED <<self, result1, fresh, hist>>

\* The caller mutates the list it was handed: result1.pop()
ResultPop ==
    /\ cls = "ListAccumulator"
    /\ result1 # None
    /\ heap[result1[1]] # <<>>
    /\ LET old == heap[result1[1]]
       IN  /\ heap' = [heap EXCEPT ![result1[1]] = SubSeq(old, 1, Len(old) - 1)]
           /\ Called("result1.pop", None, old[Len(old)])
    /\ UNCHANGED <<self, result1, fresh, hist>>

CounterCount ==
    /\ cls = "CounterAccumulator"
    /\ Len(hist) < MaxCalls
    /\ \E item \in Keys :
          /\ self' = CounterAccumulator_count(self, item)
          /\ hist' = Append(hist, item)
          /\ Called("count", item, None)
    /\ UNCHANGED <<heap, result1, fresh>>

CounterCountMany ==
    /\ cls = "CounterAccumulator"
    /\ \E items \in SeqsUpTo(Keys, MaxBulk) :
          /\ Len(hist) + Len(items) <= MaxCalls
          /\ self' = CounterAccumulator_count_many(self, items)
          /\ hist' = hist \o items
          /\ Called("count_many", items, None)
    /\ UNCHANGED <<heap, result1, fresh>>

CounterGetResult ==
    /\ cls = "CounterAccumulator"
    /\ Called("get_result", None, CounterAccumulator_get_result(self))
    /\ UNCHANGED <<self, heap, result1, fresh, hist>>

CounterGetCount ==
    /\ cls = "CounterAccumulator"
    /\ \E item \in Keys :
          LET got == CounterAccumulator_get_count(self, item)
          IN  /\ self' = got.self
              /\ Called("get_count", item, got.value)
    /\ UNCHANGED <<heap, result1, fresh, hist>>

CounterReset ==
    /\ cls = "CounterAccumulator"
    /\ self' = CounterAccumulator_reset(self)
    /\ hist' = <<>>
    /\ fresh' = FALSE
    /\ Called("reset", None, None)
    /\ UNCHANGED <<heap, result1>>

MinMaxAdd ==
    /\ cls = "MinMaxAccumulator"
    /\ Len(hist) < MaxCalls
    /\ \E value \in Values :
          /\ self' = MinMaxAccumulator_add(self, value)
          /\ hist' = Append(hist, value)
          /\ Called("add", value, None)
    /\ UNCHANGED <<heap, result1, fresh>>

MinMaxGetMin ==
    /\ cls = "MinMaxAccumulator"
    /\ Called("get_min", None, MinMaxAccumulator_get_min(self))
    /\ UNCHANGED <<self, heap, result1, fresh, hist>>

MinMaxGetMax ==
    /\ cls = "MinMaxAccumulator"
    /\ Called("get_max", None, MinMaxAccumulator_get_max(self))
    /\ UNCHANGED <<self, heap, result1, fresh, hist>>

MinMaxGetResult ==
    /\ cls = "MinMaxAccumulator"
    /\ Called("get_result", None, MinMaxAccumulator_get_result(self))
    /\ UNCHANGED <<self, heap, result1, fresh, hist>>

MinMaxReset ==
    /\ cls = "MinMaxAccumulator"
    /\ self' = MinMaxAccumulator_reset(self)
    /\ hist' = <<>>
    /\ fresh' = FALSE
    /\ Called("reset", None, None)
    /\ UNCHANGED <<heap, result1>>

CustomAdd ==
    /\ cls = "CustomAccumulator"
    /\ Len(hist) < MaxCalls
    /\ \E new_value \in Values :
          /\ self' = CustomAccumulator_add(self, new_value)
          /\ hist' = Append(hist, new_value)
          /\ Called("add", new_value, None)
    /\ UNCHANGED <<heap, result1, fresh>>

\* Faulty variant: get_result hands the value out and starts over
CustomGetResult_drain ==
    /\ cls = "CustomAccumulator"
    /\ self' = CustomAccumulator_reset(self)
    /\ Called("get_result", None, CustomAccumulator_get_result(self))
    /\ UNCHANGED <<heap, result1, fresh, hist>>

CustomGetResult ==
    /\ cls = "CustomAccumulator"
    /\ Called("get_result", None, CustomAccumulator_get_result(self))
    /\ UNCHANGED <<self, heap, result1, fresh, hist>>

CustomReset ==
    /\ cls = "CustomAccumulator"
    /\ self' = CustomAccumulator_reset(self)
    /\ hist' = <<>>
    /\ fresh' = FALSE
    /\ Called("reset", None, None)
    /\ UNCHANGED <<heap, result1>>

Next ==
    \/ SumAdd \/ SumGetResult \/ SumReset
    \/ ProductMultiply \/ ProductGetResult \/ ProductReset
    \/ ListAppend \/ ListExtend \/ ListGetResult \/ ListReset
    \/ ResultAppend \/ ResultPop
    \/ CounterCount \/ CounterCountMany \/ CounterGetResult \/ CounterGetCount
    \/ CounterReset
    \/ MinMaxAdd \/ MinMaxGetMin \/ MinMaxGetMax \/ MinMaxGetResult \/ MinMaxReset
    \/ CustomAdd \/ CustomGetResult \/ CustomReset

Spec == Init /\ [][Next]_vars

\* ================================================== free functions, SpecFn
\* The inputs: args is the argument of the call, tagged with its kind
Prices == 0..MaxVal
Quantities == {1, 10}
Grades == {0 - MaxVal, 50, 102}
Humidities == {55, 60}
Names == <<"Alice", "Bob", "Carol", "Dave">>
Items == {"Apple", "Banana"}
Types == {"in", "out", "adjust"}
StockQuantities == {0 - MaxVal, 1, MaxVal}
Chars == {"a", " ", ".", "!", "?", "7"}
Letters3 == {"a", "b", "c"}
HelloWorld == <<"H", "e", "l", "l", "o", " ", "w", "o", "r", "l", "d", ".">>

Numbers == SeqsUpTo(Values, MaxLen)

SalesData ==
    SeqsUpTo([product : {"Apple"}, price : Prices, quantity : Quantities], MaxRecords)

StudentRecords ==
    {[i \in 1..Len(g) |-> [name |-> Names[i], grades |-> g[i]]] :
        g \in SeqsUpTo(SeqsUpTo(Grades, MaxGrades), MaxRecords)}

WeatherRecords ==
    SeqsUpTo([date : {"2023-01-01"}, temperature : Values, humidity : Humidities],
             MaxRecords)

Lengths == (0 - MaxVal)..MaxFib

Words == {"", "cat", "dog", "elephant"}

WordLists == SeqsUpTo(Words, MaxLen)

Amounts == {MaxVal, 999, 1000}
Products == {"Widget", "Gadget"}
Regions == {"North", "South"}

SalesRecords ==
    SeqsUpTo([amount : Amounts, product : Products, region : Regions], MaxRecords)

Scores == {59, 60, 69, 70, 79, 80, 89, 90}

GradeLists == SeqsUpTo(Scores, MaxGrades)

Texts == SeqsUpTo(Chars, MaxText) \cup {HelloWorld}

ItemLists == SeqsUpTo(Letters3, MaxLen)

Transactions ==
    SeqsUpTo([item : Items, type : Types, quantity : StockQuantities], MaxRecords)

InitFn ==
    /\ cls = "" /\ self = None /\ heap = EmptyHeap /\ result1 = None
    /\ ctor = None /\ fresh = TRUE /\ hist = <<>>
    /\ prev = "" /\ last = "" /\ ret = None
    /\ \/ \E numbers \in Numbers : args = [kind |-> "numbers", value |-> numbers]
       \/ \E sales_data \in SalesData : args = [kind |-> "sales_data", value |-> sales_data]
       \/ \E student_records \in StudentRecords :
             args = [kind |-> "student_records", value |-> student_records]
       \/ \E weather_records \in WeatherRecords :
             args = [kind |-> "weather_records", value |-> weather_records]
       \/ \E transactions \in Transactions :
             args = [kind |-> "transactions", value |-> transactions]
       \/ \E text \in Texts : args = [kind |-> "text", value |-> text]
       \/ \E items \in ItemLists : args = [kind |-> "items", value |-> items]
       \/ \E n \in Lengths : args = [kind |-> "n", value |-> n]
       \/ \E words \in WordLists : args = [kind |-> "words", value |-> words]
       \/ \E sales_records \in SalesRecords :
             args = [kind |-> "sales_records", value |-> sales_records]
       \/ \E grades \in GradeLists : args = [kind |-> "grades", value |-> grades]

\* One call of a function on the input
Applied(kind, name, result) ==
    /\ args.kind = kind
    /\ last' = name
    /\ ret' = result
    /\ UNCHANGED <<cls, self, heap, result1, ctor, fresh, hist, prev, args>>

MaxAccumulator == Applied("numbers", "max_accumulator", max_accumulator(args.value))

MinAccumulator == Applied("numbers", "min_accumulator", min_accumulator(args.value))

AverageAccumulator ==
    Applied("numbers", "average_accumulator", average_accumulator(args.value))

SalesAnalysisAccumulator ==
    Applied("sales_data", "sales_analysis_accumulator", sales_analysis_accumulator(args.value))

StudentGradesAccumulator ==
    Applied("student_records", "student_grades_accumulator",
            student_grades_accumulator(args.value))

WeatherDataAccumulator ==
    Applied("weather_records", "weather_data_accumulator",
            weather_data_accumulator(args.value))

InventoryManagementAccumulator ==
    Applied("transactions", "inventory_management_accumulator",
            inventory_management_accumulator(args.value))

TextAnalysisAccumulator ==
    Applied("text", "text_analysis_accumulator", text_analysis_accumulator(args.value))

RunningSumAccumulator ==
    Applied("numbers", "running_sum_accumulator", running_sum_accumulator(args.value))

FrequencyCounterAccumulator ==
    Applied("items", "frequency_counter_accumulator",
            frequency_counter_accumulator(args.value))

FibonacciAccumulator ==
    Applied("n", "fibonacci_accumulator", fibonacci_accumulator(args.value))

Exercise2LongestWord ==
    Applied("words", "exercise_2_longest_word", exercise_2_longest_word(args.value))

BasicSumAccumulator ==
    Applied("numbers", "basic_sum_accumulator", basic_sum_accumulator(args.value))

ProductAccumulator ==
    Applied("numbers", "product_accumulator", product_accumulator(args.value))

AccumulateSum ==
    Applied("numbers", "accumulate_sum", Return(accumulate_sum(args.value)))

AccumulateProduct ==
    Applied("numbers", "accumulate_product", Return(accumulate_product(args.value)))

ProcessSalesData ==
    Applied("sales_records", "process_sales_data", process_sales_data(args.value))

AnalyzeGrades ==
    Applied("grades", "analyze_grades", analyze_grades(args.value))

NextFn ==
    \/ MaxAccumulator \/ MinAccumulator \/ AverageAccumulator
    \/ SalesAnalysisAccumulator \/ StudentGradesAccumulator \/ WeatherDataAccumulator
    \/ InventoryManagementAccumulator
    \/ TextAnalysisAccumulator
    \/ RunningSumAccumulator
    \/ FrequencyCounterAccumulator
    \/ FibonacciAccumulator
    \/ Exercise2LongestWord
    \/ BasicSumAccumulator
    \/ ProductAccumulator
    \/ AccumulateSum
    \/ AccumulateProduct
    \/ ProcessSalesData
    \/ AnalyzeGrades

SpecFn == InitFn /\ [][NextFn]_vars

\* ===================================================== two instances
\* Two accumulators alive at once and called in any interleaving.  cls, self,
\* ctor and hist are pairs, one entry per instance; args.target is the
\* instance of the last call.  The list of a ListAccumulator and the
\* defaultdict of a CounterAccumulator are objects of the one heap the two
\* instances live in.
PairKinds ==
    {<<"SumAccumulator", "">>, <<"ProductAccumulator", "">>, <<"ListAccumulator", "">>,
     <<"CounterAccumulator", "">>, <<"MinMaxAccumulator", "">>,
     <<"CustomAccumulator", "add">>, <<"CustomAccumulator", "list">>}

\* The heap objects an instance holds
ObjRefs(c, s) ==
    CASE c = "ListAccumulator"    -> {s.items}
      [] c = "CounterAccumulator" -> {s.counts}
      [] OTHER                    -> {}

\* defaultdict(int): a new empty dict object
NewCounts(h, r) == [self |-> [counts |-> r], heap |-> [h EXCEPT ![r] = CounterAccumulator_init.counts]]

\* cls() with the default arguments
Construct(k, h, live) ==
    CASE k[1] = "SumAccumulator"     -> [self |-> SumAccumulator_init(0), heap |-> h]
      [] k[1] = "ProductAccumulator" -> [self |-> ProductAccumulator_init(1), heap |-> h]
      [] k[1] = "ListAccumulator"    -> ListAccumulator_init(h, Alloc(live))
      [] k[1] = "CounterAccumulator" -> NewCounts(h, Alloc(live))
      [] k[1] = "MinMaxAccumulator"  -> [self |-> MinMaxAccumulator_init, heap |-> h]
      [] k[1] = "CustomAccumulator"  ->
            [self |-> CustomAccumulator_init(IF k[2] = "list" THEN <<>> ELSE 0, k[2]),
             heap |-> h]

InitPair ==
    /\ \E k1, k2 \in PairKinds :
          LET a == Construct(k1, EmptyHeap, {})
              b == Construct(k2, a.heap, ObjRefs(k1[1], a.self))
          IN  /\ cls = <<k1[1], k2[1]>>
              /\ ctor = <<k1, k2>>
              /\ self = <<a.self, b.self>>
              /\ heap = b.heap
    /\ hist = <<<<>>, <<>>>>
    /\ result1 = None /\ fresh = TRUE /\ prev = "" /\ ret = None
    /\ last = "__init__"
    /\ args = [target |-> 0, value |-> None]

PairLive(s) == ObjRefs(cls[1], s[1]) \cup ObjRefs(cls[2], s[2])

\* One call on instance j: s and h are its attributes and the heap afterwards
PairCalled(j, name, value, s, h, added) ==
    /\ self' = [self EXCEPT ![j] = s]
    /\ heap' = Collect(h, PairLive([self EXCEPT ![j] = s]))
    /\ hist' = [hist EXCEPT ![j] = added]
    /\ last' = name
    /\ args' = [target |-> j, value |-> value]
    /\ UNCHANGED <<cls, ctor, result1, fresh, prev, ret>>

Budget(n) == Len(hist[1]) + Len(hist[2]) + n <= MaxCalls

PairAdd ==
    \E j \in 1..2 : \E value \in Values :
        /\ cls[j] \in {"SumAccumulator", "MinMaxAccumulator", "CustomAccumulator"}
        /\ Budget(1)
        /\ PairCalled(j, "add", value,
                      CASE cls[j] = "SumAccumulator"    -> SumAccumulator_add(self[j], value)
                        [] cls[j] = "MinMaxAccumulator" -> MinMaxAccumulator_add(self[j], value)
                        [] cls[j] = "CustomAccumulator" -> CustomAccumulator_add(self[j], value),
                      heap, Append(hist[j], value))

PairMultiply ==
    \E j \in 1..2 : \E value \in Values :
        /\ cls[j] = "ProductAccumulator"
        /\ Budget(1)
        /\ PairCalled(j, "multiply", value, ProductAccumulator_multiply(self[j], value),
                      heap, Append(hist[j], value))

PairAppend ==
    \E j \in 1..2 : \E value \in Elems :
        /\ cls[j] = "ListAccumulator"
        /\ Budget(1)
        /\ PairCalled(j, "append", value, self[j],
                      ListAccumulator_append(heap, self[j], value), Append(hist[j], value))

PairExtend ==
    \E j \in 1..2 : \E values \in SeqsUpTo(Elems, MaxBulk) :
        /\ cls[j] = "ListAccumulator"
        /\ Budget(Len(values))
        /\ PairCalled(j, "extend", values, self[j],
                      ListAccumulator_extend(heap, self[j], values), hist[j] \o values)

\* self.counts[item] += 1 on the defaultdict object of instance j
PairCount ==
    \E j \in 1..2 : \E item \in Keys :
        /\ cls[j] = "CounterAccumulator"
        /\ Budget(1)
        /\ LET counted == CounterAccumulator_count([counts |-> heap[self[j].counts]], item)
           IN  PairCalled(j, "count", item, self[j],
                          [heap EXCEPT ![self[j].counts] = counted.counts],
                          Append(hist[j], item))

PairReset ==
    \E j \in 1..2 :
        LET made ==
              CASE cls[j] = "SumAccumulator"     ->
                     [self |-> SumAccumulator_reset(self[j]), heap |-> heap]
                [] cls[j] = "ProductAccumulator" ->
                     [self |-> ProductAccumulator_reset(self[j]), heap |-> heap]
                [] cls[j] = "ListAccumulator"    ->
                     ListAccumulator_reset(heap, self[j], Alloc(PairLive(self)))
                [] cls[j] = "CounterAccumulator" -> NewCounts(heap, Alloc(PairLive(self)))
                [] cls[j] = "MinMaxAccumulator"  ->
                     [self |-> MinMaxAccumulator_reset(self[j]), heap |-> heap]
                [] cls[j] = "CustomAccumulator"  ->
                     [self |-> CustomAccumulator_reset(self[j]), heap |-> heap]
        IN  PairCalled(j, "reset", None, made.self, made.heap, <<>>)

NextPair ==
    \/ PairAdd \/ PairMultiply
    \/ PairAppend \/ PairExtend
    \/ PairCount
    \/ PairReset

SpecPair == InitPair /\ [][NextPair]_vars

\* ======================================================= properties, Spec
\* What get_result() returns when called in the current state
GetResult ==
    CASE cls = "SumAccumulator"     -> SumAccumulator_get_result(self)
      [] cls = "ProductAccumulator" -> ProductAccumulator_get_result(self)
      [] cls = "ListAccumulator"    ->
            LET got == ListAccumulator_get_result(heap, self, Alloc(Live(self, result1)))
            IN  got.heap[got.ref]
      [] cls = "CounterAccumulator" -> CounterAccumulator_get_result(self)
      [] cls = "MinMaxAccumulator"  -> MinMaxAccumulator_get_result(self)
      [] cls = "CustomAccumulator"  -> CustomAccumulator_get_result(self)

\* The value the last call returned (a returned list is read through its reference)
Returned == IF cls = "ListAccumulator" /\ last = "get_result" THEN heap[ret[1]] ELSE ret

\* get_result() right after construction
ConstructionResult ==
    CASE cls \in {"SumAccumulator", "ProductAccumulator"} -> ctor
      [] cls \in {"ListAccumulator", "CounterAccumulator"} -> <<>>
      [] cls = "MinMaxAccumulator" -> <<None, None>>
      [] cls = "CustomAccumulator" -> ctor.initial_value

\* The identity of each accumulator type
Identity ==
    CASE cls = "SumAccumulator"     -> 0
      [] cls = "ProductAccumulator" -> 1
      [] cls \in {"ListAccumulator", "CounterAccumulator"} -> <<>>
      [] cls = "MinMaxAccumulator"  -> <<None, None>>
      [] cls = "CustomAccumulator"  -> ctor.initial_value

\* The value the accumulator started from: the constructor's value, or the
\* identity once reset was called
Start == IF fresh THEN ConstructionResult ELSE Identity

Reorderings(s) == {[i \in 1..Len(s) |-> s[p[i]]] : p \in Permutations(1..Len(s))}

\* C1: get_count(item) returns the number of times item was counted since the
\* last reset (0 if unseen) and leaves get_result() as it was before the call.
C1_GetCountIsPureLookup ==
    [][last' = "get_count" =>
          /\ ret' = Occurrences(hist, args')
          /\ CounterAccumulator_get_result(self') = CounterAccumulator_get_result(self)]_vars

\* C2: for every accumulator and constructor argument, get_result() after
\* reset() equals the get_result() returned right after construction.
C2_ResetRestoresConstructionState ==
    (prev = "reset" /\ last = "get_result") => Returned = ConstructionResult

C5_ReturnedListIndependent ==
    [][cls = "ListAccumulator" =>
          /\ last' \in {"result1.append", "result1.pop"} => GetResult' = GetResult
          /\ (last' \in {"append", "extend"} /\ result1 # None)
                => heap'[result1'[1]] = heap[result1[1]]]_vars

C5_Witness ==
    /\ cls = "ListAccumulator" /\ result1 # None
    /\ prev = "result1.append" /\ last = "append"
    /\ heap[result1[1]] # heap[self.items]
    /\ Len(heap[result1[1]]) = Len(heap[self.items])

\* C6: get_result() leaves the accumulator's state as it was, and two
\* consecutive get_result() calls return equal values, for all six types.
C6_GetResultIdempotent ==
    [][last' = "get_result" =>
          /\ self' = self
          /\ GetResult' = GetResult
          /\ last = "get_result" => Returned' = Returned]_vars

C6_Witness ==
    /\ prev = "get_result" /\ last = "get_result"
    /\ cls = "CounterAccumulator" /\ Len(hist) >= 2

\* C7: after a non-empty sequence of add calls the MinMax result is
\* (minimum, maximum) of the values added, for every permutation of the
\* sequence, and accumulate_min_max returns the same pair.
C7_MinMaxOfValuesAdded ==
    (cls = "MinMaxAccumulator" /\ hist # <<>>) =>
        /\ GetResult = <<Some(SetMin(Range(hist))), Some(SetMax(Range(hist)))>>
        /\ \A q \in Reorderings(hist) : accumulate_min_max(q) = GetResult

C7_Witness ==
    /\ cls = "MinMaxAccumulator" /\ Len(hist) >= 3
    /\ hist[1] = 0 /\ hist[2] < 0 /\ hist[3] > 0
    /\ last = "get_result" /\ ret = <<Some(hist[2]), Some(hist[3])>>

\* ===================================================== properties, SpecFn
Temperatures(weather_records) ==
    {weather_records[i].temperature : i \in 1..Len(weather_records)}

NoGrades(student_records) ==
    \A i \in 1..Len(student_records) : student_records[i].grades = <<>>

\* C8: max_accumulator and min_accumulator raise on an empty list and never
\* return a default for it; on a non-empty list they return the largest,
\* respectively smallest, element.
C8_MaxMinOfList ==
    /\ last = "max_accumulator" =>
          IF args.value = <<>> THEN ret.raises = "ValueError"
          ELSE ret.raises = "" /\ ret.value = SetMax(Range(args.value))
    /\ last = "min_accumulator" =>
          IF args.value = <<>> THEN ret.raises = "ValueError"
          ELSE ret.raises = "" /\ ret.value = SetMin(Range(args.value))

C8_Witness ==
    /\ last = "max_accumulator" /\ args.value = <<>>
    /\ ret.raises = "ValueError" /\ ret.value = None

C10_EmptyAverageIsZero ==
    /\ (last = "average_accumulator" /\ args.value = <<>>) =>
          ret.raises = "" /\ ret.value = Fraction(0, 1)
    /\ (last = "sales_analysis_accumulator" /\ args.value = <<>>) =>
          ret.raises = "" /\ ret.value.avg_price = Fraction(0, 1)
    /\ last = "student_grades_accumulator" =>
          /\ ret.raises = ""
          /\ NoGrades(args.value) => ret.value.class_average = Fraction(0, 1)
          /\ \A i \in 1..Len(args.value) :
                args.value[i].grades = <<>> =>
                    student_avg(args.value[i]) = Return(Fraction(0, 1))

C10_Witness ==
    /\ last = "student_grades_accumulator" /\ Len(args.value) = 2
    /\ args.value[1].grades = <<>> /\ args.value[2].grades # <<>>
    /\ ret.raises = "" /\ ret.value.class_average # Fraction(0, 1)

\* C11: inventory_management_accumulator never produces a negative stock
\* level: for every sequence of transactions (any item, any type, any integer
\* quantity) every value of the returned inventory is >= 0.
C11_StockNeverNegative ==
    last = "inventory_management_accumulator" =>
        /\ ret.raises = ""
        /\ \A item \in DOMAIN ret.value : ret.value[item] >= 0

\* The positions of text where a maximal run of alphabetic characters starts
WordStarts(text) ==
    {i \in 1..Len(text) : isalpha(text[i]) /\ (i = 1 \/ ~isalpha(text[i - 1]))}

Terminators(text) == {i \in 1..Len(text) : text[i] \in {".", "!", "?"}}

C13_RunningSums ==
    last = "running_sum_accumulator" =>
        /\ ret.raises = ""
        /\ Len(ret.value) = Len(args.value)
        /\ \A i \in 1..Len(args.value) : ret.value[i] = SumSeq(SubSeq(args.value, 1, i))
        /\ args.value = <<>> => ret.value = <<>>

C13_Witness ==
    /\ last = "running_sum_accumulator"
    /\ args.value = <<1, 0 - 2, 2>>
    /\ ret.value = <<1, 0 - 1, 1>>

\* The sum of the values of a dict
RECURSIVE SumValues(_)
SumValues(d) ==
    IF DOMAIN d = {} THEN 0
    ELSE LET k == CHOOSE k \in DOMAIN d : TRUE
         IN  d[k] + SumValues([j \in DOMAIN d \ {k} |-> d[j]])

\* C14: the keys of frequency_counter_accumulator(items) are exactly the
\* distinct values of items, result[v] is the number of occurrences of v, and
\* the values sum to len(items).
C14_FrequencyTable ==
    last = "frequency_counter_accumulator" =>
        /\ ret.raises = ""
        /\ DOMAIN ret.value = Range(args.value)
        /\ \A v \in Range(args.value) : ret.value[v] = Occurrences(args.value, v)
        /\ SumValues(ret.value) = Len(args.value)

C14_Witness ==
    /\ last = "frequency_counter_accumulator"
    /\ args.value = <<"a", "b", "a">>
    /\ ret.value["a"] = 2 /\ ret.value["b"] = 1 /\ DOMAIN ret.value = {"a", "b"}

\* ================================================ properties, Spec (further)
\* count applied to each element of items, in order
RECURSIVE CountEach(_, _)
CountEach(s, items) ==
    IF items = <<>> THEN s
    ELSE CounterAccumulator_count(CountEach(s, SubSeq(items, 1, Len(items) - 1)),
                                  items[Len(items)])

\* C15: after any count / count_many calls since construction or reset,
\* get_result() maps each item to the number of times it was counted (a first
\* count takes a missing item from 0 to 1), count_many(items) acts as count on
\* each element in order, and accumulate_counts(items) equals
\* frequency_counter_accumulator(items).
C15_CounterCounts ==
    /\ [](cls = "CounterAccumulator" =>
            /\ Range(hist) \subseteq DOMAIN GetResult
            /\ \A item \in DOMAIN GetResult : GetResult[item] = Occurrences(hist, item)
            /\ (\A item \in DOMAIN GetResult : GetResult[item] > 0) =>
                   GetResult = frequency_counter_accumulator(hist).value
            /\ accumulate_counts(hist) = frequency_counter_accumulator(hist).value)
    /\ [][/\ (last' = "count" /\ args' \notin DOMAIN self.counts) => self'.counts[args'] = 1
          /\ last' = "count_many" => self' = CountEach(self, args')]_vars

C15_Witness ==
    /\ cls = "CounterAccumulator"
    /\ prev = "count" /\ last = "count_many"
    /\ hist = <<"apple", "banana", "apple">> /\ args = <<"banana", "apple">>
    /\ self.counts["apple"] = 2 /\ self.counts["banana"] = 1

\* append applied to each element of values, in order
RECURSIVE AppendEach(_, _, _)
AppendEach(h, s, values) ==
    IF values = <<>> THEN h
    ELSE ListAccumulator_append(AppendEach(h, s, SubSeq(values, 1, Len(values) - 1)), s,
                                values[Len(values)])

\* C16: after any interleaving of append and extend calls since construction
\* or reset, get_result() is the concatenation in call order of the appended
\* elements and the extended sequences; extend(values) acts as appending each
\* element of values in order.
C16_ListInCallOrder ==
    /\ [](cls = "ListAccumulator" =>
            /\ GetResult = hist
            /\ last = "get_result" => Returned = hist)
    /\ [][(cls = "ListAccumulator" /\ last' = "extend") =>
             heap'[self'.items] = AppendEach(heap, self, args')[self.items]]_vars

C16_Witness ==
    /\ cls = "ListAccumulator"
    /\ prev = "extend" /\ last = "get_result"
    /\ hist = <<"x", "y", "x">> /\ Returned = <<"x", "y", "x">>

\* combine(...combine(combine(initial, v1), v2)..., vn)
RECURSIVE Fold(_, _, _)
Fold(f, initial, values) ==
    IF values = <<>> THEN initial
    ELSE accumulate_func(f, Fold(f, initial, SubSeq(values, 1, Len(values) - 1)),
                         values[Len(values)])

\* C17: for CustomAccumulator(initial, combine), after add(v1), ..., add(vn)
\* since construction or the last reset, get_result() equals
\* combine(...combine(combine(initial, v1), v2)..., vn), applied in call
\* order, also for a combine that is not commutative (list building).
C17_CustomFoldsInCallOrder ==
    cls = "CustomAccumulator" =>
        /\ GetResult = Fold(ctor.accumulate_func, ctor.initial_value, hist)
        /\ last = "get_result" =>
               Returned = Fold(ctor.accumulate_func, ctor.initial_value, hist)

C17_Witness ==
    /\ cls = "CustomAccumulator"
    /\ ctor.accumulate_func = "list" /\ ctor.initial_value = <<0>>
    /\ prev = "add" /\ last = "get_result"
    /\ hist = <<2, 0, 1>> /\ Returned = <<0, 2, 0, 1>>

\* C18: fibonacci_accumulator(n) returns [] for n <= 0, [0] for n = 1,
\* [0, 1] for n = 2, and for every n >= 0 a list of exactly n elements whose
\* element i (i >= 2) is the sum of elements i-1 and i-2;
\* fibonacci_accumulator(8) is [0, 1, 1, 2, 3, 5, 8, 13].
C18_Fibonacci ==
    last = "fibonacci_accumulator" =>
        LET n == args.value
            fib == ret.value
        IN  /\ ret.raises = ""
            /\ n <= 0 => fib = <<>>
            /\ n = 1 => fib = <<0>>
            /\ n = 2 => fib = <<0, 1>>
            /\ n >= 0 => /\ Len(fib) = n
                         /\ \A i \in 3..n : fib[i] = fib[i - 1] + fib[i - 2]
            /\ n = 8 => fib = <<0, 1, 1, 2, 3, 5, 8, 13>>

C18_Witness ==
    /\ last = "fibonacci_accumulator"
    /\ args.value = 8
    /\ ret.value = <<0, 1, 1, 2, 3, 5, 8, 13>>

\* C19: exercise_2_longest_word(words) returns, for a non-empty list, a word
\* of maximal length, and among several words of that length the one that
\* occurs first in the list; for an empty list it returns the empty string.
C19_LongestWordFirstOfTies ==
    last = "exercise_2_longest_word" =>
        LET words == args.value
        IN  /\ ret.raises = ""
            /\ words = <<>> => ret.value = ""
            /\ words # <<>> =>
                  \E i \in 1..Len(words) :
                      /\ ret.value = words[i]
                      /\ \A j \in 1..Len(words) : Len(words[j]) <= Len(words[i])
                      /\ \A j \in 1..(i - 1) : Len(words[j]) < Len(words[i])

C19_Witness ==
    /\ last = "exercise_2_longest_word"
    /\ args.value = <<"", "cat", "dog">>
    /\ ret.value = "cat"

\* C20: for every list xs of integers, basic_sum_accumulator(xs) and
\* accumulate_sum(xs) equal the sum of xs, and product_accumulator(xs) and
\* accumulate_product(xs) equal the product of xs; on the empty list the sum
\* functions return 0 and the product functions return 1.
C20_SumsAndProducts ==
    /\ last \in {"basic_sum_accumulator", "accumulate_sum"} =>
          /\ ret = Return(SumSeq(args.value))
          /\ args.value = <<>> => ret.value = 0
    /\ last \in {"product_accumulator", "accumulate_product"} =>
          /\ ret = Return(ProdSeq(args.value))
          /\ args.value = <<>> => ret.value = 1

C20_Witness ==
    /\ last = "product_accumulator"
    /\ args.value = <<2, 0 - 2, 2>>
    /\ ret.value = 0 - 8

\* C21: a MinMaxAccumulator is undefined until its first add: right after
\* construction and right after reset, get_min() and get_max() are None and
\* get_result() is (None, None); accumulate_min_max([]) returns (None, None)
\* without raising, as accumulate_sum([]) returns 0, accumulate_product([])
\* returns 1 and accumulate_counts([]) returns {}.
C21_MinMaxUndefinedUntilFirstAdd ==
    /\ (cls = "MinMaxAccumulator" /\ hist = <<>>) =>
          /\ MinMaxAccumulator_get_min(self) = None
          /\ MinMaxAccumulator_get_max(self) = None
          /\ MinMaxAccumulator_get_result(self) = <<None, None>>
          /\ last \in {"get_min", "get_max"} => ret = None
          /\ last = "get_result" => ret = <<None, None>>
          /\ accumulate_min_max(hist) = <<None, None>>
    /\ accumulate_sum(<<>>) = 0
    /\ accumulate_product(<<>>) = 1
    /\ accumulate_counts(<<>>) = <<>>

C21_Witness ==
    /\ cls = "MinMaxAccumulator"
    /\ fresh = FALSE /\ hist = <<>>
    /\ prev = "reset" /\ last = "get_result"
    /\ ret = <<None, None>>

\* ================================================== properties, SpecPair
\* What get_result() of instance j returns when called in the current state
PairResult(j) ==
    CASE cls[j] = "SumAccumulator"     -> SumAccumulator_get_result(self[j])
      [] cls[j] = "ProductAccumulator" -> ProductAccumulator_get_result(self[j])
      [] cls[j] = "ListAccumulator"    -> heap[self[j].items]
      [] cls[j] = "CounterAccumulator" ->
            CounterAccumulator_get_result([counts |-> heap[self[j].counts]])
      [] cls[j] = "MinMaxAccumulator"  -> MinMaxAccumulator_get_result(self[j])
      [] cls[j] = "CustomAccumulator"  -> CustomAccumulator_get_result(self[j])

\* C22: no mutable state is shared across accumulator instances: for any two
\* distinct instances, of the same or of different types, a call of add,
\* multiply, append, extend, count or reset on one leaves get_result() of the
\* other unchanged, under every interleaving of calls on the two.
C22_NoSharedState ==
    [][\A j \in 1..2 : args'.target = j => PairResult(3 - j)' = PairResult(3 - j)]_vars

C22_Witness ==
    /\ cls = <<"ListAccumulator", "ListAccumulator">>
    /\ last = "append" /\ args.target = 1
    /\ hist = <<<<"x">>, <<"y", "y">>>>
    /\ PairResult(1) = <<"x">> /\ PairResult(2) = <<"y", "y">>

\* C23: in every reachable state of a MinMaxAccumulator (any sequence of add
\* and reset), min_value and max_value are either both None or both defined,
\* and when defined min_value <= max_value and each is one of the values
\* added since the last reset.
C23_MinMaxInvariant ==
    cls = "MinMaxAccumulator" =>
        /\ self.min_value = None <=> self.max_value = None
        /\ self.min_value # None =>
              /\ self.min_value[1] <= self.max_value[1]
              /\ self.min_value[1] \in Range(hist)
              /\ self.max_value[1] \in Range(hist)

C23_Witness ==
    /\ cls = "MinMaxAccumulator"
    /\ fresh = FALSE /\ last = "add"
    /\ hist = <<2, 0 - 1>>
    /\ self = [min_value |-> Some(0 - 1), max_value |-> Some(2)]

\* The grade average of student i of the records
Average(student_records, i) == student_avg(student_records[i]).value

\* The first student whose average no other student's average exceeds
FirstHighest(student_records, i) ==
    /\ \A j \in 1..Len(student_records) :
          ~Less(Average(student_records, i), Average(student_records, j))
    /\ \A j \in 1..(i - 1) : Less(Average(student_records, j), Average(student_records, i))

FirstLowest(student_records, i) ==
    /\ \A j \in 1..Len(student_records) :
          ~Less(Average(student_records, j), Average(student_records, i))
    /\ \A j \in 1..(i - 1) : Less(Average(student_records, i), Average(student_records, j))

\* C24: for every non-empty student_records list, student_grades_accumulator
\* returns best_student and worst_student that are names of students in the
\* list (never None), best_student being the first student with the highest
\* grade average and worst_student the first student with the lowest grade
\* average, for any numeric grades (averages below -1 or above 101 included,
\* a student without grades counting as average 0).
C24_BestAndWorstAreStudents ==
    (last = "student_grades_accumulator" /\ args.value # <<>>) =>
        /\ ret.raises = ""
        /\ ret.value.best_student # None
        /\ ret.value.worst_student # None
        /\ \E i \in 1..Len(args.value) :
              /\ ret.value.best_student = Some(args.value[i].name)
              /\ FirstHighest(args.value, i)
        /\ \E i \in 1..Len(args.value) :
              /\ ret.value.worst_student = Some(args.value[i].name)
              /\ FirstLowest(args.value, i)

\* The amounts of the records
AmountsOf(sales_records) == {sales_records[i].amount : i \in 1..Len(sales_records)}

\* C25: for every non-empty sales_records list the results of
\* process_sales_data are mutually consistent: the regional_totals sum to
\* total_revenue, the product_counts sum to total_transactions,
\* big_sales_count is the number of records with amount >= 1000, and
\* sale_range is (min, max) of the amounts.
C25_SalesResultsConsistent ==
    (last = "process_sales_data" /\ args.value # <<>>) =>
        /\ ret.raises = ""
        /\ SumValues(ret.value.regional_totals) = ret.value.total_revenue
        /\ SumValues(ret.value.product_counts) = ret.value.total_transactions
        /\ ret.value.big_sales_count =
              Cardinality({i \in 1..Len(args.value) : args.value[i].amount >= 1000})
        /\ ret.value.sale_range =
              <<Some(SetMin(AmountsOf(args.value))), Some(SetMax(AmountsOf(args.value)))>>

C25_Witness ==
    /\ last = "process_sales_data"
    /\ args.value = <<[amount |-> 1000, product |-> "Widget", region |-> "North"],
                      [amount |-> 999, product |-> "Gadget", region |-> "South"]>>
    /\ ret.value.total_revenue = 1999
    /\ ret.value.regional_totals["North"] = 1000
    /\ ret.value.big_sales_count = 1
    /\ ret.value.sale_range = <<Some(999), Some(1000)>>

\* A >= 90, B >= 80, C >= 70, D >= 60, F otherwise
LetterOf(grade) ==
    CASE grade >= 90               -> "A"
      [] grade >= 80 /\ grade < 90 -> "B"
      [] grade >= 70 /\ grade < 80 -> "C"
      [] grade >= 60 /\ grade < 70 -> "D"
      [] grade < 60                -> "F"

Passing(grade) == grade >= 60

\* C26: for every non-empty grades list, analyze_grades assigns each grade
\* exactly one letter (A >= 90, B >= 80, C >= 70, D >= 60, F otherwise), so the
\* letter_grades counts sum to total_students, passing_grades is the
\* subsequence of grades >= 60 in input order, and its length equals
\* total_students minus the F count.
C26_LettersAndPassingGrades ==
    (last = "analyze_grades" /\ args.value # <<>>) =>
        LET grades == args.value
            letter_grades == ret.value.letter_grades
            failed == IF "F" \in DOMAIN letter_grades THEN letter_grades["F"] ELSE 0
        IN  /\ ret.raises = ""
            /\ DOMAIN letter_grades = {LetterOf(grades[i]) : i \in 1..Len(grades)}
            /\ \A letter \in DOMAIN letter_grades :
                  letter_grades[letter] =
                      Cardinality({i \in 1..Len(grades) : LetterOf(grades[i]) = letter})
            /\ SumValues(letter_grades) = ret.value.total_students
            /\ ret.value.total_students = Len(grades)
            /\ ret.value.passing_grades = SelectSeq(grades, Passing)
            /\ Len(ret.value.passing_grades) = ret.value.total_students - failed

C26_Witness ==
    /\ last = "analyze_grades"
    /\ args.value = <<90, 59>>
    /\ ret.value.letter_grades = [A |-> 1, F |-> 1]
    /\ ret.value.passing_grades = <<90>>

====
